---- MODULE Spec2Model ----
(***************************************************************************)
(* The Option container of nochoices: an Option object holds one private   *)
(* field `value` that references an OptionalValue object, which is either  *)
(* a Some (with its own field `value`) or a None.  Objects live in a heap  *)
(* and are named by their identity; every method is an operator that takes *)
(* the heap and returns the heap it leaves together with what it returns   *)
(* or throws.                                                              *)
(***************************************************************************)
EXTENDS Integers, Sequences, FiniteSets, TLC

\* MaxLive: Option objects the caller holds between two calls
\* MaxTemps: further objects one call may create
MaxLive == 2
MaxTemps == 5


OptIds == 1..(MaxLive + MaxTemps)
CellIds == 1..(MaxLive + MaxTemps + 1)
NoCell == 0

(***************************************************************************)
(* Host-language values.  Every value is a record [k, n]: k is the type of *)
(* the value and n what tells two values of that type apart.               *)
(***************************************************************************)
Num(i) == [k |-> "number", n |-> i]
Bool(b) == [k |-> "boolean", n |-> IF b THEN 1 ELSE 0]
Undefined == [k |-> "undefined", n |-> 0]
Null == [k |-> "null", n |-> 0]
Ref(o) == [k |-> "Option", n |-> o]
Err(msg) == [k |-> "Error", n |-> msg]
Fn(name, captured) == [k |-> "function", n |-> <<name, captured>>]

IsRef(v) == v.k = "Option"

\* the host language's truthiness of a value (`if (res)`)
Truthy(v) ==
  CASE v.k = "number" -> v.n # 0
    [] v.k = "boolean" -> v.n = 1
    [] v.k = "undefined" -> FALSE
    [] v.k = "null" -> FALSE
    [] OTHER -> TRUE

\* the plain values the caller stores: two of them falsy, one truthy
Plain == {Num(0), Num(1), Bool(FALSE)}
Errors == {Err("custom"), Err("unwrap over None.")}

(***************************************************************************)
(* The heap.  opts[o] is the `value` field of Option o (NoCell when o is   *)
(* not an object of the program), cells[c] is the OptionalValue object c.  *)
(* log is the sequence of callback invocations made so far by the running  *)
(* call, oom says that the call needed more objects than the bounds allow. *)
(***************************************************************************)
FreeCell == [tag |-> "free", value |-> Undefined]

EmptyHeap ==
  [opts |-> [o \in OptIds |-> NoCell],
   cells |-> [c \in CellIds |-> FreeCell],
   log |-> << >>,
   oom |-> FALSE]

Min(S) == CHOOSE x \in S : \A y \in S : x <= y

Live(s) == {o \in OptIds : s.opts[o] # NoCell}

Ok(s, v) == [s |-> s, ret |-> v, thrown |-> FALSE]
Throw(s, e) == [s |-> s, ret |-> e, thrown |-> TRUE]

\* `new Some(value)`
NewSome(s, v) ==
  LET free == {c \in CellIds : s.cells[c].tag = "free"}
      c == IF free = {} THEN 1 ELSE Min(free)
  IN [s |-> [s EXCEPT !.cells[c] = [tag |-> "Some", value |-> v],
                      !.oom = s.oom \/ free = {}],
      ref |-> c]

\* `new None()`
NewNone(s) ==
  LET free == {c \in CellIds : s.cells[c].tag = "free"}
      c == IF free = {} THEN 1 ELSE Min(free)
  IN [s |-> [s EXCEPT !.cells[c] = [tag |-> "None", value |-> Undefined],
                      !.oom = s.oom \/ free = {}],
      ref |-> c]

\* `new Option(value)`
NewOption(s, c) ==
  LET free == OptIds \ Live(s)
      o == IF free = {} THEN 1 ELSE Min(free)
  IN Ok([s EXCEPT !.opts[o] = c, !.oom = s.oom \/ free = {}], Ref(o))

OptionSome(s, v) ==
  LET n == NewSome(s, v) IN NewOption(n.s, n.ref)

OptionNone(s) ==
  LET n == NewNone(s) IN NewOption(n.s, n.ref)

(***************************************************************************)
(* The OptionalValue classes: Some (src/some.ts) and None (src/none.ts).   *)
(* c is the object the method is called on (`this`).                       *)
(***************************************************************************)
IsSomeCell(s, c) == s.cells[c].tag = "Some"

\* a Some that reports its presence by the truthiness of its value
M_SomeIsPresent(s, c) == Ok(s, Bool(Truthy(s.cells[c].value)))
SomeIsPresent(s, c) == Ok(s, Bool(TRUE))
NoneIsPresent(s, c) == Ok(s, Bool(FALSE))
ValueIsPresent(s, c) ==
  IF IsSomeCell(s, c) THEN SomeIsPresent(s, c) ELSE NoneIsPresent(s, c)

SomeIsAbsent(s, c) == Ok(s, Bool(FALSE))
NoneIsAbsent(s, c) == Ok(s, Bool(TRUE))
ValueIsAbsent(s, c) ==
  IF IsSomeCell(s, c) THEN SomeIsAbsent(s, c) ELSE NoneIsAbsent(s, c)

SomeUnwrap(s, c) == Ok(s, s.cells[c].value)
NoneUnwrap(s, c) == Throw(s, Err("unwrap over None."))
ValueUnwrap(s, c) ==
  IF IsSomeCell(s, c) THEN SomeUnwrap(s, c) ELSE NoneUnwrap(s, c)

SomeExpect(s, c, err) == Ok(s, s.cells[c].value)
\* a None whose expect throws the error of unwrap, not the caller's
M_NoneExpect(s, c, err) == Throw(s, Err("unwrap over None."))
NoneExpect(s, c, err) == Throw(s, err)
ValueExpect(s, c, err) ==
  IF IsSomeCell(s, c) THEN SomeExpect(s, c, err) ELSE NoneExpect(s, c, err)

SomeUnwrapOr(s, c, defaultValue) == Ok(s, s.cells[c].value)
NoneUnwrapOr(s, c, defaultValue) == Ok(s, defaultValue)
ValueUnwrapOr(s, c, defaultValue) ==
  IF IsSomeCell(s, c) THEN SomeUnwrapOr(s, c, defaultValue)
  ELSE NoneUnwrapOr(s, c, defaultValue)

\* a Some whose getOrInsert stores the argument over its value
M_SomeGetOrInsert(s, c, value) == NewSome(s, value)
\* a None whose getOrInsert answers itself
M_NoneGetOrInsert(s, c, value) == [s |-> s, ref |-> c]

\* getOrInsert returns an OptionalValue object: [s, ref]
SomeGetOrInsert(s, c, value) == [s |-> s, ref |-> c]
NoneGetOrInsert(s, c, value) == NewSome(s, value)
ValueGetOrInsert(s, c, value) ==
  IF IsSomeCell(s, c) THEN SomeGetOrInsert(s, c, value)
  ELSE NoneGetOrInsert(s, c, value)

SomeTakeValue(s, c) == OptionSome(s, s.cells[c].value)
NoneTakeValue(s, c) == OptionNone(s)
ValueTakeValue(s, c) ==
  IF IsSomeCell(s, c) THEN SomeTakeValue(s, c) ELSE NoneTakeValue(s, c)

(***************************************************************************)
(* The Option class (src/option.ts), first the methods that need no        *)
(* callback.  o is the Option the method is called on (`this`).            *)
(***************************************************************************)
OptionIsNone(s, o) == ValueIsAbsent(s, s.opts[o])

OptionIsSome(s, o) == ValueIsPresent(s, s.opts[o])

OptionUnwrap(s, o) == ValueUnwrap(s, s.opts[o])

\* an unwrapOr that stores the default it falls back to
M_OptionUnwrapOr(s, o, defaultValue) ==
  LET g == ValueGetOrInsert(s, s.opts[o], defaultValue)
  IN ValueUnwrapOr([g.s EXCEPT !.opts[o] = g.ref], g.ref, defaultValue)

OptionUnwrapOr(s, o, defaultValue) == ValueUnwrapOr(s, s.opts[o], defaultValue)

OptionExpect(s, o, err) == ValueExpect(s, s.opts[o], err)

\* an insert that returns a new Option and leaves the receiver alone
M_OptionInsert(s, o, value) == OptionSome(s, value)

OptionInsert(s, o, value) ==
  LET n == NewSome(s, value)
  IN Ok([n.s EXCEPT !.opts[o] = n.ref], Ref(o))

OptionGetOrInsert(s, o, value) ==
  LET g == ValueGetOrInsert(s, s.opts[o], value)
  IN OptionUnwrap([g.s EXCEPT !.opts[o] = g.ref], o)

\* a take that does not reset the receiver
M_OptionTake(s, o) == ValueTakeValue(s, s.opts[o])

OptionTake(s, o) ==
  LET takeValue == ValueTakeValue(s, s.opts[o])
      n == NewNone(takeValue.s)
  IN Ok([n.s EXCEPT !.opts[o] = n.ref], takeValue.ret)

\* a replace that writes newValue into the receiver's OptionalValue and
\* hands that same object out in the returned Option
M_OptionReplaceInPlace(s, o, newValue) ==
  NewOption([s EXCEPT !.cells[s.opts[o]] =
                        [tag |-> "Some", value |-> newValue]],
            s.opts[o])

\* a replace that wraps the OptionalValue it has just stored
M_OptionReplace(s, o, newValue) ==
  LET n == NewSome(s, newValue)
  IN NewOption([n.s EXCEPT !.opts[o] = n.ref], n.ref)

OptionReplace(s, o, newValue) ==
  LET oldValue == s.opts[o]
      n == NewSome(s, newValue)
  IN NewOption([n.s EXCEPT !.opts[o] = n.ref], oldValue)

(***************************************************************************)
(* The caller's callbacks.  A callback is the value Fn(name, captured);    *)
(* calling it appends the invocation to the log and runs its body.         *)
(*   always, never, isZero   predicates                                    *)
(*   same, const             transformations and generators                *)
(*   wrap, none, some, const functions that return an Option               *)
(*   first, second           functions of two arguments                    *)
(*   noop                    a function called for its effect only         *)
(*   inserting               a predicate that calls insert(v) on the       *)
(*                           Option it captured, and then accepts          *)
(***************************************************************************)
Pair(a, b) == [k |-> "array", n |-> <<a, b>>]

UserBody(s, fn, args) ==
  LET name == fn.n[1]
      captured == fn.n[2]
  IN CASE name = "always" -> Ok(s, Bool(TRUE))
       [] name = "never" -> Ok(s, Bool(FALSE))
       [] name = "isZero" -> Ok(s, Bool(args[1] = Num(0)))
       [] name = "same" -> Ok(s, args[1])
       [] name = "const" -> Ok(s, captured)
       [] name = "wrap" -> OptionSome(s, args[1])
       [] name = "none" -> OptionNone(s)
       [] name = "some" -> OptionSome(s, captured)
       [] name = "first" -> Ok(s, args[1])
       [] name = "second" -> Ok(s, args[2])
       [] name = "inserting" ->
            LET i == OptionInsert(s, captured.n[1].n, captured.n[2])
            IN Ok(i.s, Bool(TRUE))
       [] OTHER -> Ok(s, Undefined)

Logged(s, fn, args) == [s EXCEPT !.log = Append(@, <<fn, args>>)]

CallUser(s, fn, args) == UserBody(Logged(s, fn, args), fn, args)

\* the closures the library itself builds and passes on
\*   zipWith$1    ([t, u]) => zipWithFn(t, u)      option.ts:415
\*   isSomeBut$1  (t) => !condition(t)             option.ts:714
\*   takeIf$1     () => this.take()                option.ts:827
\*   unzip$1      ([a, b]) => [Option.Some(a), Option.Some(b)]  unzip.ts:28
Call(s, fn, args) ==
  LET name == fn.n[1]
      captured == fn.n[2]
  IN CASE name = "zipWith$1" ->
            CallUser(s, captured, <<args[1].n[1], args[1].n[2]>>)
       [] name = "isSomeBut$1" ->
            LET r == CallUser(s, captured, args)
            IN Ok(r.s, Bool(~Truthy(r.ret)))
       [] name = "takeIf$1" -> OptionTake(s, captured.n)
       [] name = "unzip$1" ->
            LET a == OptionSome(s, args[1].n[1])
                b == OptionSome(a.s, args[1].n[2])
            IN Ok(b.s, Pair(a.ret, b.ret))
       [] OTHER -> CallUser(s, fn, args)

(***************************************************************************)
(* Some and None, the methods that take callbacks or other options.        *)
(***************************************************************************)
SomeMap(s, c, fn) ==
  LET newValue == Call(s, fn, <<s.cells[c].value>>)
  IN OptionSome(newValue.s, newValue.ret)
NoneMap(s, c, fn) == OptionNone(s)
ValueMap(s, c, fn) ==
  IF IsSomeCell(s, c) THEN SomeMap(s, c, fn) ELSE NoneMap(s, c, fn)

\* a Some whose filter runs the predicate and keeps the value whatever it says
M_SomeFilter(s, c, fn) ==
  LET res == Call(s, fn, <<s.cells[c].value>>)
  IN OptionSome(res.s, res.s.cells[c].value)
SomeFilter(s, c, fn) ==
  LET res == Call(s, fn, <<s.cells[c].value>>)
  IN IF Truthy(res.ret) THEN OptionSome(res.s, res.s.cells[c].value)
     ELSE OptionNone(res.s)
\* a None whose filter runs the predicate, on no value
M_NoneFilter(s, c, fn) ==
  LET res == Call(s, fn, <<Undefined>>) IN OptionNone(res.s)
NoneFilter(s, c, fn) == OptionNone(s)
ValueFilter(s, c, fn) ==
  IF IsSomeCell(s, c) THEN SomeFilter(s, c, fn) ELSE NoneFilter(s, c, fn)

\* a Some whose unwrapOrElse runs the generator before it looks at itself
M_SomeUnwrapOrElse(s, c, defaultFn) ==
  LET d == Call(s, defaultFn, << >>) IN Ok(d.s, s.cells[c].value)
SomeUnwrapOrElse(s, c, defaultFn) == Ok(s, s.cells[c].value)
NoneUnwrapOrElse(s, c, defaultFn) == Call(s, defaultFn, << >>)
ValueUnwrapOrElse(s, c, defaultFn) ==
  IF IsSomeCell(s, c) THEN SomeUnwrapOrElse(s, c, defaultFn)
  ELSE NoneUnwrapOrElse(s, c, defaultFn)

\* a Some whose flatten wraps its value whatever it is
M_SomeFlatten(s, c) == OptionSome(s, s.cells[c].value)
SomeFlatten(s, c) ==
  IF IsRef(s.cells[c].value) THEN Ok(s, s.cells[c].value)
  ELSE OptionSome(s, s.cells[c].value)
NoneFlatten(s, c) == OptionNone(s)
ValueFlatten(s, c) ==
  IF IsSomeCell(s, c) THEN SomeFlatten(s, c) ELSE NoneFlatten(s, c)

\* a Some that pairs its own value first when it is the argument of zip
M_SomeZipWithSome(s, c, some) ==
  OptionSome(s, Pair(s.cells[c].value, s.cells[some].value))
SomeZipWithSome(s, c, some) ==
  OptionSome(s, Pair(s.cells[some].value, s.cells[c].value))
NoneZipWithSome(s, c, some) == OptionNone(s)
ValueZipWithSome(s, c, some) ==
  IF IsSomeCell(s, c) THEN SomeZipWithSome(s, c, some)
  ELSE NoneZipWithSome(s, c, some)

SomeZip(s, c, another) == ValueZipWithSome(s, another, c)
NoneZip(s, c, another) == OptionNone(s)
ValueZip(s, c, another) ==
  IF IsSomeCell(s, c) THEN SomeZip(s, c, another) ELSE NoneZip(s, c, another)

\* and, or take Option objects; xor takes the OptionalValue of the other
SomeAnd(s, c, another) == Ok(s, Ref(another))
NoneAnd(s, c, another) == OptionNone(s)
ValueAnd(s, c, another) ==
  IF IsSomeCell(s, c) THEN SomeAnd(s, c, another) ELSE NoneAnd(s, c, another)

\* a Some whose or answers a copy of itself
M_SomeOr(s, c, self, another) == OptionSome(s, s.cells[c].value)
SomeOr(s, c, self, another) == Ok(s, Ref(self))
NoneOr(s, c, self, another) == Ok(s, Ref(another))
ValueOr(s, c, self, another) ==
  IF IsSomeCell(s, c) THEN SomeOr(s, c, self, another)
  ELSE NoneOr(s, c, self, another)

SomeXorWithNone(s, c) == OptionSome(s, s.cells[c].value)
NoneXorWithNone(s, c) == OptionNone(s)
ValueXorWithNone(s, c) ==
  IF IsSomeCell(s, c) THEN SomeXorWithNone(s, c) ELSE NoneXorWithNone(s, c)

\* a Some whose xor with another Some keeps the other's value
M_SomeXorWithSome(s, c, some) == OptionSome(s, s.cells[some].value)
SomeXorWithSome(s, c, some) == OptionNone(s)
NoneXorWithSome(s, c, some) ==
  LET u == SomeUnwrap(s, some) IN OptionSome(u.s, u.ret)
ValueXorWithSome(s, c, some) ==
  IF IsSomeCell(s, c) THEN SomeXorWithSome(s, c, some)
  ELSE NoneXorWithSome(s, c, some)

SomeXor(s, c, another) == ValueXorWithSome(s, another, c)
NoneXor(s, c, another) == ValueXorWithNone(s, another)
ValueXor(s, c, another) ==
  IF IsSomeCell(s, c) THEN SomeXor(s, c, another) ELSE NoneXor(s, c, another)

\* a Some whose andThen wraps what the callback returns, as map does
M_SomeAndThen(s, c, fn) == SomeMap(s, c, fn)
SomeAndThen(s, c, fn) == Call(s, fn, <<s.cells[c].value>>)
NoneAndThen(s, c, fn) == OptionNone(s)
ValueAndThen(s, c, fn) ==
  IF IsSomeCell(s, c) THEN SomeAndThen(s, c, fn) ELSE NoneAndThen(s, c, fn)

\* a Some whose orElse runs the generator
M_SomeOrElse(s, c, fn) == Call(s, fn, << >>)
SomeOrElse(s, c, fn) == OptionSome(s, s.cells[c].value)
NoneOrElse(s, c, fn) == Call(s, fn, << >>)
ValueOrElse(s, c, fn) ==
  IF IsSomeCell(s, c) THEN SomeOrElse(s, c, fn) ELSE NoneOrElse(s, c, fn)

\* a Some whose getOrInsertWith stores what the generator gives
M_SomeGetOrInsertWith(s, c, fn) ==
  LET v == Call(s, fn, << >>) IN NewSome(v.s, v.ret)
SomeGetOrInsertWith(s, c, fn) == [s |-> s, ref |-> c]
NoneGetOrInsertWith(s, c, fn) ==
  LET v == Call(s, fn, << >>) IN NewSome(v.s, v.ret)
ValueGetOrInsertWith(s, c, fn) ==
  IF IsSomeCell(s, c) THEN SomeGetOrInsertWith(s, c, fn)
  ELSE NoneGetOrInsertWith(s, c, fn)

\* Some.isSomeAnd, Some.ifSome and both ifNone are declared in
\* OptionalValue; their bodies follow the documentation of the Option
\* methods that delegate to them.
SomeIsSomeAnd(s, c, andFn) ==
  LET r == Call(s, andFn, <<s.cells[c].value>>) IN Ok(r.s, Bool(Truthy(r.ret)))
NoneIsSomeAnd(s, c, andFn) == Ok(s, Bool(FALSE))
ValueIsSomeAnd(s, c, andFn) ==
  IF IsSomeCell(s, c) THEN SomeIsSomeAnd(s, c, andFn)
  ELSE NoneIsSomeAnd(s, c, andFn)

SomeIfSome(s, c, param) ==
  LET r == Call(s, param, <<s.cells[c].value>>) IN Ok(r.s, Undefined)
NoneIfSome(s, c, param) == Ok(s, Undefined)
ValueIfSome(s, c, param) ==
  IF IsSomeCell(s, c) THEN SomeIfSome(s, c, param) ELSE NoneIfSome(s, c, param)

SomeIfNone(s, c, fn) == Ok(s, Undefined)
NoneIfNone(s, c, fn) ==
  LET r == Call(s, fn, << >>) IN Ok(r.s, Undefined)
ValueIfNone(s, c, fn) ==
  IF IsSomeCell(s, c) THEN SomeIfNone(s, c, fn) ELSE NoneIfNone(s, c, fn)

SomeEquals(s, c, another) ==
  Ok(s, Bool(IsSomeCell(s, another)
             /\ s.cells[c].value = s.cells[another].value))
NoneEquals(s, c, another) == Ok(s, Bool(~IsSomeCell(s, another)))
ValueEquals(s, c, another) ==
  IF IsSomeCell(s, c) THEN SomeEquals(s, c, another)
  ELSE NoneEquals(s, c, another)

\* equalsBy is declared in OptionalValue; the bodies of Some and None
\* follow the specification of the comparison with a caller's equality.
SomeEqualsBy(s, c, another, equality) ==
  IF IsSomeCell(s, another)
  THEN Call(s, equality, <<s.cells[c].value, s.cells[another].value>>)
  ELSE Ok(s, Bool(FALSE))
NoneEqualsBy(s, c, another, equality) == Ok(s, Bool(~IsSomeCell(s, another)))
ValueEqualsBy(s, c, another, equality) ==
  IF IsSomeCell(s, c) THEN SomeEqualsBy(s, c, another, equality)
  ELSE NoneEqualsBy(s, c, another, equality)

(***************************************************************************)
(* The Option class, the remaining methods.                                *)
(***************************************************************************)
\* a fromNullable that tests the truthiness of its argument
M_OptionFromNullable(s, param) ==
  IF ~Truthy(param) THEN OptionNone(s) ELSE OptionSome(s, param)

OptionFromNullable(s, param) ==
  IF param = Null \/ param = Undefined THEN OptionNone(s)
  ELSE OptionSome(s, param)

OptionMap(s, o, fn) == ValueMap(s, s.opts[o], fn)

OptionUnwrapOrElse(s, o, defaultFn) ==
  ValueUnwrapOrElse(s, s.opts[o], defaultFn)

OptionFilter(s, o, fn) == ValueFilter(s, s.opts[o], fn)

OptionFlatten(s, o) == ValueFlatten(s, s.opts[o])

OptionMapOr(s, o, defaultValue, mapFn) ==
  LET m == OptionMap(s, o, mapFn)
  IN OptionUnwrapOr(m.s, m.ret.n, defaultValue)

OptionMapOrElse(s, o, defFn, mapFn) ==
  LET m == OptionMap(s, o, mapFn)
  IN OptionUnwrapOrElse(m.s, m.ret.n, defFn)

OptionZip(s, o, another) == ValueZip(s, s.opts[o], s.opts[another])

OptionZipWith(s, o, another, zipWithFn) ==
  LET z == OptionZip(s, o, another)
  IN OptionMap(z.s, z.ret.n, Fn("zipWith$1", zipWithFn))

OptionAnd(s, o, another) == ValueAnd(s, s.opts[o], another)

OptionOr(s, o, another) == ValueOr(s, s.opts[o], o, another)

OptionXor(s, o, another) == ValueXor(s, s.opts[o], s.opts[another])

OptionAndThen(s, o, fn) == ValueAndThen(s, s.opts[o], fn)

OptionOrElse(s, o, fn) == ValueOrElse(s, s.opts[o], fn)

OptionGetOrInsertWith(s, o, fn) ==
  LET g == ValueGetOrInsertWith(s, s.opts[o], fn)
  IN OptionUnwrap([g.s EXCEPT !.opts[o] = g.ref], o)

OptionIsSomeAnd(s, o, andFn) == ValueIsSomeAnd(s, s.opts[o], andFn)

\* an isSomeBut that negates the answer of isSomeAnd
M_OptionIsSomeBut(s, o, condition) ==
  LET r == ValueIsSomeAnd(s, s.opts[o], condition)
  IN Ok(r.s, Bool(~Truthy(r.ret)))

OptionIsSomeBut(s, o, condition) ==
  ValueIsSomeAnd(s, s.opts[o], Fn("isSomeBut$1", condition))

OptionIfSome(s, o, fn) ==
  LET r == ValueIfSome(s, s.opts[o], fn) IN Ok(r.s, Ref(o))

\* an ifNone that returns what the ifNone of its OptionalValue returns
M_OptionIfNone(s, o, fn) == ValueIfNone(s, s.opts[o], fn)

OptionIfNone(s, o, fn) ==
  LET r == ValueIfNone(s, s.opts[o], fn) IN Ok(r.s, Ref(o))

\* an inspectContent that goes through ifNone
M_OptionInspectContent(s, o, param) ==
  LET r == OptionIfNone(s, o, param) IN Ok(r.s, Undefined)

OptionInspectContent(s, o, param) ==
  LET r == OptionIfSome(s, o, param) IN Ok(r.s, Undefined)

\* a takeIf that takes whatever the predicate says
M_OptionTakeIf(s, o, param) ==
  LET f == OptionFilter(s, o, param)
  IN OptionTake(f.s, o)

OptionTakeIf(s, o, param) ==
  LET f == OptionFilter(s, o, param)
  IN OptionAndThen(f.s, f.ret.n, Fn("takeIf$1", Ref(o)))

\* an equals that compares the two Option objects
M_OptionEquals(s, o, another) == Ok(s, Bool(o = another))

OptionEquals(s, o, another) == ValueEquals(s, s.opts[o], s.opts[another])

\* an equalsBy that compares the argument with the receiver
M_OptionEqualsBy(s, o, another, equality) ==
  ValueEqualsBy(s, s.opts[another], s.opts[o], equality)

OptionEqualsBy(s, o, another, equality) ==
  ValueEqualsBy(s, s.opts[o], s.opts[another], equality)

(***************************************************************************)
(* The functions of the module (src/flatten.ts, src/unzip.ts).             *)
(***************************************************************************)
\* a flatten that delegates to the method
M_flatten(s, opt) == OptionFlatten(s, opt)

flatten(s, opt) ==
  LET none == OptionNone(s)
  IN OptionUnwrapOr(none.s, opt, none.ret)

\* an unzip that hands the two Options out in the other order
M_unzip(s, opt) ==
  LET m == OptionMap(s, opt, Fn("unzip$1", Undefined))
      a == OptionNone(m.s)
      b == OptionNone(a.s)
      u == OptionUnwrapOr(b.s, m.ret.n, Pair(a.ret, b.ret))
  IN Ok(u.s, Pair(u.ret.n[2], u.ret.n[1]))

unzip(s, opt) ==
  LET m == OptionMap(s, opt, Fn("unzip$1", Undefined))
      a == OptionNone(m.s)
      b == OptionNone(a.s)
  IN OptionUnwrapOr(b.s, m.ret.n, Pair(a.ret, b.ret))

(***************************************************************************)
(* The program: a caller that holds Option objects and calls the library.  *)
(* A call is one step; in the state it leaves, last is the call: the       *)
(* method, the receiver, the receiver's OptionalValue before the call, the *)
(* arguments, what the call returned or threw, whether the returned Option *)
(* is an object made by the call, the OptionalValue of the returned Option *)
(* (of the two Options of a returned array, in duo) and the callback       *)
(* invocations made.  The caller then takes the result (Return) and is     *)
(* free to make the next call.                                             *)
(***************************************************************************)
VARIABLES opts, cells, last

vars == <<opts, cells, last>>

Cur == [opts |-> opts, cells |-> cells, log |-> << >>, oom |-> FALSE]

NoSelf == 0

Idle ==
  [op |-> "idle", self |-> NoSelf, pre |-> FreeCell, args |-> << >>,
   ret |-> Undefined, thrown |-> FALSE, fresh |-> FALSE, out |-> FreeCell,
   duo |-> << >>, log |-> << >>]

\* the caller is free to make a call
Calling == last.op = "idle"

RECURSIVE RefsOf(_)
RefsOf(v) ==
  IF v.k = "Option" THEN {v.n}
  ELSE IF v.k = "array" THEN RefsOf(v.n[1]) \cup RefsOf(v.n[2])
  ELSE {}

RECURSIVE RenameValue(_, _)
RenameValue(v, f) ==
  IF v.k = "Option" THEN Ref(f[v.n])
  ELSE IF v.k = "array"
       THEN Pair(RenameValue(v.n[1], f), RenameValue(v.n[2], f))
  ELSE v

\* the Option objects reachable from the Option objects R
RECURSIVE Reach(_, _)
Reach(s, R) ==
  LET next == R \cup UNION {RefsOf(s.cells[s.opts[o]].value) : o \in R}
  IN IF next = R THEN R ELSE Reach(s, next)

Rank(x, S) == Cardinality({y \in S : y < x})
Nth(S, k) == CHOOSE x \in S : Rank(x, S) = k

\* The end of a call.  The caller keeps the Options it held and, when it
\* retains the result, the Options the call returned; every other object of
\* the call is garbage.  Names of objects are not observable: the Options
\* the call created take the lowest names not in use, and an OptionalValue
\* object takes the name of the first Option that holds it.
Commit(op, self, args, call, retain) ==
  \E r \in {call} :
  \E L \in {Live(Cur)} :
  \E K \in {Reach(r.s, L \cup (IF retain /\ ~r.thrown THEN RefsOf(r.ret)
                                ELSE {}))} :
  \E N \in {K \ L} :
  \E freeO \in {OptIds \ L} :
  LET pre == Cur
      f == [o \in OptIds |-> IF o \in N THEN Nth(freeO, Rank(o, N)) ELSE o]
  IN
  \E T \in {{f[k] : k \in K}} :
  LET src == [o \in T |-> IF o \in L THEN o ELSE Nth(N, Rank(o, freeO))]
      name == [o \in T |->
                Min({p \in T : r.s.opts[src[p]] = r.s.opts[src[o]]})]
      content(c) == [tag |-> r.s.cells[c].tag,
                     value |-> RenameValue(r.s.cells[c].value, f)]
  IN /\ ~r.s.oom
     /\ Cardinality(K) <= MaxLive
     /\ opts' = [o \in OptIds |-> IF o \in T THEN name[o] ELSE NoCell]
     /\ cells' = [c \in CellIds |->
                   IF c \in T /\ name[c] = c THEN content(r.s.opts[src[c]])
                   ELSE FreeCell]
     /\ last' = [op |-> op,
                 self |-> self,
                 pre |-> IF self = NoSelf THEN FreeCell
                         ELSE pre.cells[pre.opts[self]],
                 args |-> args,
                 ret |-> RenameValue(r.ret, f),
                 thrown |-> r.thrown,
                 fresh |-> ~r.thrown /\ IsRef(r.ret) /\ r.ret.n \notin L,
                 out |-> IF ~r.thrown /\ IsRef(r.ret)
                         THEN content(r.s.opts[r.ret.n]) ELSE FreeCell,
                 duo |-> IF ~r.thrown /\ r.ret.k = "array"
                            /\ IsRef(r.ret.n[1]) /\ IsRef(r.ret.n[2])
                         THEN <<content(r.s.opts[r.ret.n[1].n]),
                                content(r.s.opts[r.ret.n[2].n])>>
                         ELSE << >>,
                 log |-> [i \in 1..Len(r.s.log) |->
                           <<r.s.log[i][1],
                             [j \in 1..Len(r.s.log[i][2]) |->
                               RenameValue(r.s.log[i][2][j], f)]>>]]

Init ==
  /\ opts = EmptyHeap.opts
  /\ cells = EmptyHeap.cells
  /\ last = Idle

\* the inputs of the calls
Held == Live(Cur)
Predicates == {Fn("always", Undefined), Fn("never", Undefined),
               Fn("isZero", Undefined)}
Transformations == {Fn("same", Undefined), Fn("const", Num(1))}
Generators == {Fn("const", Num(1)), Fn("const", Bool(FALSE))}
GenerateOptions ==
  {Fn("none", Undefined), Fn("some", Num(0))}
    \cup {Fn("const", Ref(o)) : o \in Held}
TransformToOptions ==
  {Fn("none", Undefined), Fn("wrap", Undefined)}
    \cup {Fn("const", Ref(o)) : o \in Held}
ZipTransformations == {Fn("first", Undefined), Fn("second", Undefined)}
Effects == {Fn("noop", Undefined)}
Defaults == {Num(0), Bool(FALSE)}
Tuples == {Pair(Num(0), Bool(FALSE))}

(***************************************************************************)
(* One action per call of the public interface.                            *)
(***************************************************************************)
DoSome ==
  /\ Calling
  /\ \E v \in Plain \cup Tuples \cup {Ref(o) : o \in Held} :
       Commit("Some", NoSelf, <<v>>, OptionSome(Cur, v), TRUE)

DoNone ==
  /\ Calling
  /\ Commit("None", NoSelf, << >>, OptionNone(Cur), TRUE)

DoFromNullable ==
  /\ Calling
  /\ \E v \in Plain \cup {Null, Undefined} :
       Commit("fromNullable", NoSelf, <<v>>, OptionFromNullable(Cur, v), TRUE)

DoIsNone ==
  /\ Calling
  /\ \E o \in Held :
       Commit("isNone", o, << >>, OptionIsNone(Cur, o), FALSE)

DoIsSome ==
  /\ Calling
  /\ \E o \in Held :
       Commit("isSome", o, << >>, OptionIsSome(Cur, o), FALSE)

DoMap ==
  /\ Calling
  /\ \E o \in Held, fn \in Transformations :
       Commit("map", o, <<fn>>, OptionMap(Cur, o, fn), FALSE)

DoUnwrap ==
  /\ Calling
  /\ \E o \in Held :
       Commit("unwrap", o, << >>, OptionUnwrap(Cur, o), FALSE)

DoUnwrapOr ==
  /\ Calling
  /\ \E o \in Held, d \in Defaults :
       Commit("unwrapOr", o, <<d>>, OptionUnwrapOr(Cur, o, d), FALSE)

DoUnwrapOrElse ==
  /\ Calling
  /\ \E o \in Held, fn \in Generators :
       Commit("unwrapOrElse", o, <<fn>>, OptionUnwrapOrElse(Cur, o, fn), FALSE)

DoFilter ==
  /\ Calling
  /\ \E o \in Held, fn \in Predicates :
       Commit("filter", o, <<fn>>, OptionFilter(Cur, o, fn), FALSE)

DoExpect ==
  /\ Calling
  /\ \E o \in Held, err \in Errors :
       Commit("expect", o, <<err>>, OptionExpect(Cur, o, err), FALSE)

DoFlatten ==
  /\ Calling
  /\ \E o \in Held :
       Commit("flatten", o, << >>, OptionFlatten(Cur, o), FALSE)

\* flatten(opt), the function of the module
DoFlattenFunction ==
  /\ Calling
  /\ \E o \in Held :
       Commit("flatten(opt)", o, <<Ref(o)>>, flatten(Cur, o), FALSE)

\* unzip(opt), for an opt of the type Option<[A, B]>
DoUnzip ==
  /\ Calling
  /\ \E o \in Held :
       /\ cells[opts[o]].tag = "Some" => cells[opts[o]].value.k = "array"
       /\ Commit("unzip", o, <<Ref(o)>>, unzip(Cur, o), FALSE)

DoMapOr ==
  /\ Calling
  /\ \E o \in Held, d \in Defaults, fn \in Transformations :
       Commit("mapOr", o, <<d, fn>>, OptionMapOr(Cur, o, d, fn), FALSE)

DoMapOrElse ==
  /\ Calling
  /\ \E o \in Held, d \in Generators, fn \in Transformations :
       Commit("mapOrElse", o, <<d, fn>>, OptionMapOrElse(Cur, o, d, fn), FALSE)

DoZip ==
  /\ Calling
  /\ \E o \in Held, a \in Held :
       Commit("zip", o, <<Ref(a)>>, OptionZip(Cur, o, a), FALSE)

DoZipWith ==
  /\ Calling
  /\ \E o \in Held, a \in Held, fn \in ZipTransformations :
       Commit("zipWith", o, <<Ref(a), fn>>, OptionZipWith(Cur, o, a, fn), FALSE)

DoAnd ==
  /\ Calling
  /\ \E o \in Held, a \in Held :
       Commit("and", o, <<Ref(a)>>, OptionAnd(Cur, o, a), FALSE)

DoOr ==
  /\ Calling
  /\ \E o \in Held, a \in Held :
       Commit("or", o, <<Ref(a)>>, OptionOr(Cur, o, a), FALSE)

DoXor ==
  /\ Calling
  /\ \E o \in Held, a \in Held :
       Commit("xor", o, <<Ref(a)>>, OptionXor(Cur, o, a), FALSE)

DoAndThen ==
  /\ Calling
  /\ \E o \in Held, fn \in TransformToOptions :
       Commit("andThen", o, <<fn>>, OptionAndThen(Cur, o, fn), FALSE)

DoOrElse ==
  /\ Calling
  /\ \E o \in Held, fn \in GenerateOptions :
       Commit("orElse", o, <<fn>>, OptionOrElse(Cur, o, fn), FALSE)

DoInsert ==
  /\ Calling
  /\ \E o \in Held, v \in Plain :
       Commit("insert", o, <<v>>, OptionInsert(Cur, o, v), TRUE)

DoGetOrInsert ==
  /\ Calling
  /\ \E o \in Held, v \in Plain :
       Commit("getOrInsert", o, <<v>>, OptionGetOrInsert(Cur, o, v), TRUE)

DoGetOrInsertWith ==
  /\ Calling
  /\ \E o \in Held, fn \in Generators :
       Commit("getOrInsertWith", o, <<fn>>, OptionGetOrInsertWith(Cur, o, fn), TRUE)

DoTake ==
  /\ Calling
  /\ \E o \in Held, keep \in BOOLEAN :
       Commit("take", o, << >>, OptionTake(Cur, o), keep)

DoReplace ==
  /\ Calling
  /\ \E o \in Held, v \in Plain, keep \in BOOLEAN :
       Commit("replace", o, <<v>>, OptionReplace(Cur, o, v), keep)

DoIsSomeAnd ==
  /\ Calling
  /\ \E o \in Held, fn \in Predicates :
       Commit("isSomeAnd", o, <<fn>>, OptionIsSomeAnd(Cur, o, fn), FALSE)

DoIsSomeBut ==
  /\ Calling
  /\ \E o \in Held, fn \in Predicates :
       Commit("isSomeBut", o, <<fn>>, OptionIsSomeBut(Cur, o, fn), FALSE)

DoIfSome ==
  /\ Calling
  /\ \E o \in Held, fn \in Effects :
       Commit("ifSome", o, <<fn>>, OptionIfSome(Cur, o, fn), FALSE)

DoIfNone ==
  /\ Calling
  /\ \E o \in Held, fn \in Effects :
       Commit("ifNone", o, <<fn>>, OptionIfNone(Cur, o, fn), FALSE)

DoInspectContent ==
  /\ Calling
  /\ \E o \in Held, fn \in Effects :
       Commit("inspectContent", o, <<fn>>, OptionInspectContent(Cur, o, fn), FALSE)

DoTakeIf ==
  /\ Calling
  /\ \E o \in Held, fn \in Predicates, keep \in BOOLEAN :
       Commit("takeIf", o, <<fn>>, OptionTakeIf(Cur, o, fn), keep)

DoEquals ==
  /\ Calling
  /\ \E o \in Held, a \in Held :
       Commit("equals", o, <<Ref(a)>>, OptionEquals(Cur, o, a), FALSE)

\* takeIf with a predicate that mutates the receiver while it runs; the
\* predicates of every other action leave the Options alone
DoTakeIfReentrant ==
  /\ Calling
  /\ \E o \in Held, v \in Plain, keep \in BOOLEAN :
     \E fn \in {Fn("inserting", Pair(Ref(o), v))} :
       Commit("takeIf(reentrant)", o, <<fn>>, OptionTakeIf(Cur, o, fn), keep)

\* equalsBy, which the tests call equalsWith; the equality is a function of
\* two values that answers a boolean
DoEqualsBy ==
  /\ Calling
  /\ \E o \in Held, a \in Held, equality \in Predicates :
       Commit("equalsBy", o, <<Ref(a), equality>>,
              OptionEqualsBy(Cur, o, a, equality), FALSE)

\* the caller lets go of an Option that no other Option holds
Drop ==
  \E o \in Held :
    /\ Calling
    /\ \A p \in Held \ {o} : o \notin RefsOf(cells[opts[p]].value)
    /\ opts' = [opts EXCEPT ![o] = NoCell]
    /\ cells' = [c \in CellIds |->
                  IF \E p \in Held \ {o} : opts[p] = c THEN cells[c]
                  ELSE FreeCell]
    /\ UNCHANGED last

\* the caller takes the result of the call
Return ==
  /\ last.op # "idle"
  /\ last' = Idle
  /\ UNCHANGED <<opts, cells>>

Next ==
  \/ DoSome \/ DoNone \/ DoFromNullable
  \/ DoIsNone \/ DoIsSome \/ DoMap \/ DoUnwrap \/ DoUnwrapOr
  \/ DoUnwrapOrElse \/ DoFilter \/ DoExpect \/ DoFlatten
  \/ DoMapOr \/ DoMapOrElse \/ DoZip \/ DoZipWith
  \/ DoAnd \/ DoOr \/ DoXor \/ DoAndThen \/ DoOrElse
  \/ DoInsert \/ DoGetOrInsert \/ DoGetOrInsertWith
  \/ DoTake \/ DoReplace \/ DoIsSomeAnd \/ DoIsSomeBut
  \/ DoIfSome \/ DoIfNone \/ DoInspectContent \/ DoTakeIf
  \/ DoEquals \/ DoEqualsBy \/ DoFlattenFunction \/ DoUnzip
  \/ DoTakeIfReentrant
  \/ Drop \/ Return

Spec == Init /\ [][Next]_vars

(***************************************************************************)
(* The properties.                                                         *)
(***************************************************************************)
Content(o) == cells[opts[o]]
PresentWith(v) == [tag |-> "Some", value |-> v]
Absent == [tag |-> "None", value |-> Undefined]

\* what a callback of the caller returns for the arguments args
Result(fn, args) == UserBody(EmptyHeap, fn, args).ret

\* C1: at every observation point exactly one of isSome() and isNone() is
\* true of every Option the caller holds, whatever sequence of insert,
\* getOrInsert, getOrInsertWith, take, takeIf and replace it went through; a
\* freshly built Some(v) is present for every v, the falsy 0 and false
\* included, and a freshly built None() is absent.
C1_ExactlyOneState ==
  /\ \A o \in Held :
       LET some == OptionIsSome(Cur, o)
           none == OptionIsNone(Cur, o)
       IN /\ ~some.thrown /\ ~none.thrown
          /\ \/ some.ret = Bool(TRUE) /\ none.ret = Bool(FALSE)
             \/ some.ret = Bool(FALSE) /\ none.ret = Bool(TRUE)
  /\ last.op = "Some" =>
       /\ OptionIsSome(Cur, last.ret.n).ret = Bool(TRUE)
       /\ OptionIsNone(Cur, last.ret.n).ret = Bool(FALSE)
  /\ last.op = "None" =>
       /\ OptionIsSome(Cur, last.ret.n).ret = Bool(FALSE)
       /\ OptionIsNone(Cur, last.ret.n).ret = Bool(TRUE)

\* Some(false) has just been built and reports isSome()
C1_Witness ==
  /\ last.op = "Some"
  /\ last.args[1] = Bool(FALSE)
  /\ OptionIsSome(Cur, last.ret.n).ret = Bool(TRUE)
  /\ \E p \in Held \ {last.ret.n} : OptionIsNone(Cur, p).ret = Bool(TRUE)

\* C2: take() returns a new Option, an instance other than the receiver,
\* that is present with the receiver's previous value when the receiver was
\* present and absent when it was absent; the receiver is absent afterwards.
C2_Take ==
  last.op = "take" =>
    /\ ~last.thrown
    /\ last.fresh
    /\ last.ret # Ref(last.self)
    /\ last.out = last.pre
    /\ Content(last.self) = Absent

C2_Witness ==
  /\ last.op = "take"
  /\ last.pre.tag = "Some"
  /\ last.out = last.pre
  /\ Content(last.self) = Absent

\* C3: replace(newValue) returns a new Option holding the receiver's
\* previous state (present with the old value, or absent); afterwards the
\* receiver is present with newValue, whatever its previous state was.
C3_Replace ==
  last.op = "replace" =>
    /\ ~last.thrown
    /\ last.fresh
    /\ last.out = last.pre
    /\ Content(last.self) = PresentWith(last.args[1])

C3_Witness ==
  /\ last.op = "replace"
  /\ last.pre.tag = "Some"
  /\ last.pre.value # last.args[1]
  /\ last.out = last.pre
  /\ Content(last.self) = PresentWith(last.args[1])

\* C4: getOrInsert(value) and getOrInsertWith(fn) make an absent receiver
\* present with value (with the result of fn) and return that value; on a
\* present receiver they ignore the argument, return the existing value and
\* leave the content as it was.  The returned value is what unwrap() returns
\* right after the call.
C4_GetOrInsert ==
  last.op \in {"getOrInsert", "getOrInsertWith"} =>
    LET given == IF last.op = "getOrInsert" THEN last.args[1]
                 ELSE Result(last.args[1], << >>)
        after == OptionUnwrap(Cur, last.self)
    IN /\ ~last.thrown
       /\ last.pre.tag = "None" =>
            Content(last.self) = PresentWith(given) /\ last.ret = given
       /\ last.pre.tag = "Some" =>
            Content(last.self) = last.pre /\ last.ret = last.pre.value
       /\ ~after.thrown /\ after.ret = last.ret

C4_Witness ==
  /\ last.op = "getOrInsert"
  /\ last.pre.tag = "Some"
  /\ last.pre.value # last.args[1]
  /\ last.ret = last.pre.value
  /\ Content(last.self) = last.pre

\* C5: takeIf(predicate) on a present receiver whose value the predicate
\* accepts returns Some(oldValue) and leaves the receiver absent; otherwise
\* (receiver absent, or predicate false) it returns None() and the
\* receiver's state and value are unchanged.
C5_TakeIf ==
  last.op = "takeIf" =>
    LET accepted == /\ last.pre.tag = "Some"
                    /\ Truthy(Result(last.args[1], <<last.pre.value>>))
    IN /\ ~last.thrown
       /\ accepted => last.out = last.pre /\ Content(last.self) = Absent
       /\ ~accepted => last.out = Absent /\ Content(last.self) = last.pre

C5_Witness ==
  /\ last.op = "takeIf"
  /\ last.pre.tag = "Some"
  /\ ~Truthy(Result(last.args[1], <<last.pre.value>>))
  /\ last.out = Absent
  /\ Content(last.self) = last.pre

\* C6: insert(value) leaves the receiver present with value whatever its
\* previous state was, and returns the receiver itself.
C6_Insert ==
  last.op = "insert" =>
    /\ ~last.thrown
    /\ last.ret = Ref(last.self)
    /\ Content(last.self) = PresentWith(last.args[1])

C6_Witness ==
  /\ last.op = "insert"
  /\ last.pre.tag = "Some"
  /\ last.pre.value # last.args[1]
  /\ last.ret = Ref(last.self)
  /\ Content(last.self) = PresentWith(last.args[1])

\* C7: unwrap() on a present option returns the contained value; on an
\* absent option it throws an Error with the message 'unwrap over None.'
\* and the receiver is still absent.  expect(err) returns the contained
\* value when present and throws the caller's err itself when absent.
C7_UnwrapExpect ==
  /\ last.op = "unwrap" =>
       /\ last.pre.tag = "Some" => ~last.thrown /\ last.ret = last.pre.value
       /\ last.pre.tag = "None" =>
            /\ last.thrown
            /\ last.ret = Err("unwrap over None.")
            /\ Content(last.self) = Absent
  /\ last.op = "expect" =>
       /\ last.pre.tag = "Some" => ~last.thrown /\ last.ret = last.pre.value
       /\ last.pre.tag = "None" => last.thrown /\ last.ret = last.args[1]

C7_Witness ==
  /\ last.op = "expect"
  /\ last.pre.tag = "None"
  /\ last.thrown
  /\ last.ret = Err("custom")

Mutators ==
  {"insert", "getOrInsert", "getOrInsertWith", "take", "takeIf", "replace"}

Queries == {"isSome", "isNone", "isSomeAnd", "isSomeBut"}

\* C8: apart from unwrap() and expect() on an absent option, every
\* operation completes without throwing on a present and on an absent
\* receiver (the caller's callbacks do not throw); in particular the
\* unwrap() that getOrInsert and getOrInsertWith perform after updating
\* the state never fails.
C8_Total ==
  /\ last.op \in Queries \cup Mutators \cup
       {"unwrapOr", "unwrapOrElse", "map", "filter", "flatten", "mapOr",
        "mapOrElse", "zip", "zipWith", "and", "or", "xor", "andThen",
        "orElse", "ifSome", "ifNone"} => ~last.thrown
  /\ last.op \in {"unwrap", "expect"} /\ last.pre.tag = "Some" => ~last.thrown

C8_Witness ==
  /\ last.op = "getOrInsert"
  /\ last.pre.tag = "None"
  /\ ~last.thrown
  /\ last.ret = last.args[1]

\* what isSome() and unwrap() report of the Option o
Reports(s, o) ==
  [isSome |-> OptionIsSome(s, o).ret,
   unwrap |-> [ret |-> OptionUnwrap(s, o).ret,
               thrown |-> OptionUnwrap(s, o).thrown]]

\* C9: a mutating operation (insert, getOrInsert, getOrInsertWith, take,
\* takeIf, replace) on one Option never changes what isSome() and unwrap()
\* report of any other Option the caller holds, the Option an earlier
\* take() or replace() of the same receiver returned included, in both
\* directions.
C9_NoSharedState ==
  [][last'.op \in Mutators =>
       \A p \in Held \ {last'.self} :
         /\ opts'[p] # NoCell
         /\ Reports(Cur, p)' = Reports(Cur, p)]_vars

C9_Witness ==
  /\ last.op \in {"insert", "replace"}
  /\ last.pre.tag = "Some"
  /\ Content(last.self) = PresentWith(last.args[1])
  /\ \E p \in Held \ {last.self} :
       /\ last.ret # Ref(p)
       /\ Content(p) = last.pre
       /\ Content(p) # Content(last.self)

\* the Options passed as arguments of the last call
ArgOptions(call) ==
  {call.args[i].n : i \in {j \in DOMAIN call.args : IsRef(call.args[j])}}

\* C10: the operations other than the six mutators are pure with respect
\* to the container: they leave the present/absent state and the contained
\* value of the receiver and of the argument Option unchanged (the
\* caller's callbacks do not mutate them).
C10_Pure ==
  [][last'.op \in Queries \cup
       {"unwrap", "expect", "unwrapOr", "unwrapOrElse", "map", "filter",
        "flatten", "mapOr", "mapOrElse", "zip", "zipWith", "and", "or",
        "xor", "andThen", "orElse", "ifSome", "ifNone", "equals"} =>
       \A p \in {last'.self} \cup ArgOptions(last') :
         /\ opts[p] # NoCell
         /\ opts'[p] # NoCell
         /\ cells'[opts'[p]] = cells[opts[p]]]_vars

C10_Witness ==
  /\ last.op = "zip"
  /\ last.pre.tag = "Some"
  /\ IsRef(last.args[1]) /\ last.args[1] # Ref(last.self)
  /\ last.out.tag = "Some"
  /\ Content(last.self) = last.pre
  /\ Content(last.args[1].n).tag = "Some"

\* the Option passed as the first argument of the last call
Other == last.args[1].n

C12_TruthTable ==
  last.op \in {"and", "or", "xor"} =>
    LET a == last.pre
        b == Content(Other)
        both == a.tag = "Some" /\ b.tag = "Some"
        neither == a.tag = "None" /\ b.tag = "None"
    IN /\ ~last.thrown
       /\ last.op = "and" => last.out = (IF both THEN b ELSE Absent)
       /\ last.op = "or" => last.out = (IF a.tag = "Some" THEN a ELSE b)
       /\ last.op = "xor" =>
            last.out = (IF both \/ neither THEN Absent
                        ELSE IF a.tag = "Some" THEN a ELSE b)

C12_Witness ==
  /\ last.op = "xor"
  /\ last.pre.tag = "Some"
  /\ Other # last.self
  /\ Content(Other).tag = "Some"
  /\ Content(Other) # last.pre
  /\ last.out = Absent

\* the last call returned exactly the Option that the callback fn returns
\* for args: an Option the caller holds, or one made by the callback
FromCallback(fn, args) ==
  LET r == UserBody(Cur, fn, args)
  IN IF r.ret.n \in Held THEN last.ret = r.ret /\ ~last.fresh
     ELSE last.fresh /\ last.out = r.s.cells[r.s.opts[r.ret.n]]

\* C13 as claimed: orElse(fn) on a present option returns the receiver
\* itself, and on an absent option exactly the Option that fn() returned.
C13_OrElseSelf ==
  last.op = "orElse" =>
    /\ ~last.thrown
    /\ last.pre.tag = "Some" => last.ret = Ref(last.self)
    /\ last.pre.tag = "None" => FromCallback(last.args[1], << >>)

\* C13: orElse(fn) on a present option returns a new Option, not the
\* receiver, that is present with the receiver's value; on an absent
\* option it returns exactly the Option that fn() returned.
C13_OrElse ==
  last.op = "orElse" =>
    /\ ~last.thrown
    /\ last.pre.tag = "Some" =>
         last.fresh /\ last.ret # Ref(last.self) /\ last.out = last.pre
    /\ last.pre.tag = "None" => FromCallback(last.args[1], << >>)

C13_Witness ==
  /\ last.op = "orElse"
  /\ last.pre.tag = "Some"
  /\ last.args[1] = Fn("some", Num(0))
  /\ last.pre.value # Num(0)
  /\ last.fresh
  /\ last.out = last.pre

C15_FlattenSelf ==
  last.op = "flatten" /\ last.pre.tag = "Some" /\ ~IsRef(last.pre.value) =>
    /\ ~last.thrown
    /\ last.ret = Ref(last.self)
    /\ last.out = last.pre

\* the last call returned what the call m of a method returns in the
\* state the last call left: the same value, or for an Option made by the
\* call an Option in the same state
SameAs(m) ==
  /\ last.thrown = m.thrown
  /\ IF IsRef(m.ret) /\ m.ret.n \notin Held
     THEN last.fresh /\ last.out = m.s.cells[m.s.opts[m.ret.n]]
     ELSE last.ret = m.ret /\ ~last.fresh

\* C16 as claimed: flatten(opt) behaves as opt.flatten() for every opt:
\* absent, present with a present or an absent Option, and present with a
\* value v that is no Option, where flatten(Some(v)).unwrap() is v.
C16_FlattenFunctionAll ==
  last.op = "flatten(opt)" =>
    /\ SameAs(OptionFlatten(Cur, last.self))
    /\ last.pre.tag = "Some" /\ ~IsRef(last.pre.value) =>
         /\ IsRef(last.ret)
         /\ last.out = PresentWith(last.pre.value)

\* C16: flatten(opt) behaves as opt.flatten() for an absent opt and for an
\* opt present with a present or an absent Option; for an opt present
\* with a value v that is no Option it returns v itself, no Option.
C16_FlattenFunction ==
  last.op = "flatten(opt)" =>
    /\ ~last.thrown
    /\ last.pre.tag = "None" \/ IsRef(last.pre.value) =>
         SameAs(OptionFlatten(Cur, last.self))
    /\ last.pre.tag = "Some" /\ ~IsRef(last.pre.value) =>
         last.ret = last.pre.value

C16_Witness ==
  /\ last.op = "flatten(opt)"
  /\ last.pre.tag = "Some"
  /\ IsRef(last.pre.value)
  /\ last.ret = last.pre.value
  /\ last.out.tag = "Some"

\* C17: andThen(fn) on a present option invokes fn exactly once, with the
\* contained value, and returns exactly the Option that fn returned,
\* present or absent; on an absent option it returns None().
C17_AndThen ==
  last.op = "andThen" =>
    /\ ~last.thrown
    /\ last.pre.tag = "Some" =>
         /\ last.log = <<<<last.args[1], <<last.pre.value>>>>>>
         /\ FromCallback(last.args[1], <<last.pre.value>>)
    /\ last.pre.tag = "None" => last.fresh /\ last.out = Absent

C17_Witness ==
  /\ last.op = "andThen"
  /\ last.pre.tag = "Some"
  /\ last.args[1].n[1] = "const"
  /\ last.args[1].n[2] # Ref(last.self)
  /\ last.ret = last.args[1].n[2]
  /\ last.out = Absent
  /\ Len(last.log) = 1

\* C18: zip and zipWith pair the values receiver first: a.zip(b) is
\* Some([aValue, bValue]) when both are present and None() when either is
\* absent; a.zipWith(b, fn) is Some(fn(aValue, bValue)) when both are
\* present and None() when either is absent, which is what mapping
\* pair => fn(pair[0], pair[1]) over a.zip(b) gives.
C18_Zip ==
  last.op \in {"zip", "zipWith"} =>
    LET a == last.pre
        b == Content(Other)
        both == a.tag = "Some" /\ b.tag = "Some"
        zipped == IF both THEN PresentWith(Pair(a.value, b.value)) ELSE Absent
    IN /\ ~last.thrown
       /\ last.fresh
       /\ last.op = "zip" => last.out = zipped
       /\ last.op = "zipWith" =>
            /\ last.out = (IF both
                           THEN PresentWith(Result(last.args[2],
                                                   <<a.value, b.value>>))
                           ELSE Absent)
            /\ last.out = (IF zipped.tag = "Some"
                           THEN PresentWith(Result(last.args[2],
                                                   <<zipped.value.n[1],
                                                     zipped.value.n[2]>>))
                           ELSE Absent)

C18_Witness ==
  /\ last.op = "zipWith"
  /\ last.pre.tag = "Some"
  /\ Content(Other).tag = "Some"
  /\ Content(Other).value # last.pre.value
  /\ last.args[2] = Fn("second", Undefined)
  /\ last.out = PresentWith(Content(Other).value)

\* the state of the Option that zip gives for two Options in the states
\* d[1] and d[2]
Rezip(d) ==
  LET make(s, c) == IF c.tag = "Some" THEN OptionSome(s, c.value)
                    ELSE OptionNone(s)
      x == make(EmptyHeap, d[1])
      y == make(x.s, d[2])
      z == OptionZip(y.s, x.ret.n, y.ret.n)
  IN z.s.cells[z.s.opts[z.ret.n]]

\* C19: unzip(o) is [Some(a), Some(b)] when o is Some([a, b]) and
\* [None(), None()] when o is absent, two Options made by the call; zipping
\* the two gives an Option in the state of o.
C19_Unzip ==
  last.op = "unzip" =>
    /\ ~last.thrown
    /\ last.ret.k = "array"
    /\ IsRef(last.ret.n[1]) /\ IsRef(last.ret.n[2])
    /\ last.ret.n[1] # last.ret.n[2]
    /\ {last.ret.n[1].n, last.ret.n[2].n} \cap Held = {}
    /\ last.pre.tag = "Some" =>
         last.duo = <<PresentWith(last.pre.value.n[1]),
                      PresentWith(last.pre.value.n[2])>>
    /\ last.pre.tag = "None" => last.duo = <<Absent, Absent>>
    /\ Rezip(last.duo) = last.pre

C19_Witness ==
  /\ last.op = "unzip"
  /\ last.pre = PresentWith(Pair(Num(0), Bool(FALSE)))
  /\ last.duo = <<PresentWith(Num(0)), PresentWith(Bool(FALSE))>>
  /\ Rezip(last.duo) = last.pre

\* the operations that pass their callback the contained value
OnValue ==
  {"map", "filter", "andThen", "isSomeAnd", "isSomeBut", "ifSome",
   "inspectContent", "takeIf"}

\* no callback is invoked by zipWith when the receiver or the argument is
\* absent
ZipWithAbsent ==
  last.op = "zipWith"
    /\ (last.pre.tag = "None" \/ Content(Other).tag = "None") =>
      last.log = << >>

\* C20 as claimed: on an absent receiver the callback passed to map,
\* filter, andThen, isSomeAnd, isSomeBut, ifSome, inspectContent or takeIf
\* is invoked zero times and the result is absent (false for isSomeAnd and
\* isSomeBut); the combinator of zipWith is invoked zero times when the
\* receiver or the argument is absent.
C20_AbsentAll ==
  /\ last.op \in OnValue /\ last.pre.tag = "None" =>
       /\ ~last.thrown
       /\ last.log = << >>
       /\ IF last.op \in {"isSomeAnd", "isSomeBut"}
          THEN last.ret = Bool(FALSE)
          ELSE IsRef(last.ret) /\ last.out = Absent
  /\ ZipWithAbsent

\* C20: as claimed, but for inspectContent, which invokes nothing on an
\* absent receiver and returns no Option: its result is undefined.
C20_Absent ==
  /\ last.op \in OnValue /\ last.pre.tag = "None" =>
       /\ ~last.thrown
       /\ last.log = << >>
       /\ IF last.op \in {"isSomeAnd", "isSomeBut"}
          THEN last.ret = Bool(FALSE)
          ELSE IF last.op = "inspectContent" THEN last.ret = Undefined
          ELSE IsRef(last.ret) /\ last.out = Absent
  /\ ZipWithAbsent

C20_Witness ==
  /\ last.op = "zipWith"
  /\ last.pre.tag = "Some"
  /\ Content(Other).tag = "None"
  /\ last.log = << >>
  /\ last.out = Absent

\* the operations that take a generator of the fallback, which is their
\* first argument
WithFallback ==
  {"unwrapOrElse", "mapOrElse", "orElse", "getOrInsertWith", "ifNone"}

\* the invocations of the callback fn, with no argument, made by the call
Generated(fn) ==
  Cardinality({i \in 1..Len(last.log) : last.log[i] = <<fn, << >>>>})

\* C21: the generators of fallbacks are lazy: the function passed to
\* unwrapOrElse, to orElse, to getOrInsertWith and to ifNone and the
\* defaultFn passed to mapOrElse is invoked zero times when the receiver is
\* present and exactly once when it is absent.
C21_Lazy ==
  last.op \in WithFallback =>
    /\ ~last.thrown
    /\ last.pre.tag = "Some" => Generated(last.args[1]) = 0
    /\ last.pre.tag = "None" =>
         /\ Generated(last.args[1]) = 1
         /\ Len(last.log) = 1

\* mapOrElse on a present option, given the same function as defaultFn and
\* as mapFn: the one invocation is the mapping of the value
C21_Witness ==
  /\ last.op = "mapOrElse"
  /\ last.pre.tag = "Some"
  /\ last.args[1] = last.args[2]
  /\ last.log = <<<<last.args[2], <<last.pre.value>>>>>>
  /\ Generated(last.args[1]) = 0

\* o.filter(p).map(f).unwrapOr(d), called in the current state, returns v
FilterMapUnwrapOr(o, p, f, d, v) ==
  \E kept \in {OptionFilter(Cur, o, p)} :
  \E mapped \in {OptionMap(kept.s, kept.ret.n, f)} :
  \E r \in {OptionUnwrapOr(mapped.s, mapped.ret.n, d)} :
    ~r.thrown /\ r.ret = v

C23_Equals ==
  /\ last.op = "equals" =>
       LET a == last.pre
           b == Content(Other)
       IN /\ ~last.thrown
          /\ last.log = << >>
          /\ a.tag = "None" /\ b.tag = "None" => last.ret = Bool(TRUE)
          /\ a.tag # b.tag => last.ret = Bool(FALSE)
          /\ a.tag = "Some" /\ b.tag = "Some" =>
               last.ret = Bool(a.value = b.value)
  /\ \A o \in Held, a \in Held :
       /\ OptionEquals(Cur, o, a).ret = OptionEquals(Cur, a, o).ret
       /\ OptionEquals(Cur, o, a).ret = Bool(Content(o) = Content(a))

\* two Option objects, present with the same value, are equal
C23_Witness ==
  /\ last.op = "equals"
  /\ Other # last.self
  /\ opts[Other] # opts[last.self]
  /\ last.pre.tag = "Some"
  /\ Content(Other) = last.pre
  /\ last.ret = Bool(TRUE)

C25_IsSomeAndBut ==
  /\ last.op = "isSomeAnd" =>
       /\ ~last.thrown
       /\ last.ret = Bool(/\ last.pre.tag = "Some"
                          /\ Result(last.args[1], <<last.pre.value>>)
                               = Bool(TRUE))
  /\ last.op = "isSomeBut" =>
       /\ ~last.thrown
       /\ last.ret = Bool(/\ last.pre.tag = "Some"
                          /\ Result(last.args[1], <<last.pre.value>>)
                               = Bool(FALSE))
  /\ \A o \in Held, p \in Predicates :
       \E and \in {OptionIsSomeAnd(Cur, o, p).ret} :
       \E but \in {OptionIsSomeBut(Cur, o, p).ret} :
         /\ {and, but} \subseteq {Bool(TRUE), Bool(FALSE)}
         /\ Content(o).tag = "Some" => and # but
         /\ Content(o).tag = "None" => and = Bool(FALSE) /\ but = Bool(FALSE)

\* isSomeBut(isZero) is true of a present 1, of which isSomeAnd(isZero) is
\* false
C25_Witness ==
  /\ last.op = "isSomeBut"
  /\ last.pre = PresentWith(Num(1))
  /\ last.args[1] = Fn("isZero", Undefined)
  /\ last.ret = Bool(TRUE)
  /\ OptionIsSomeAnd(Cur, last.self, last.args[1]).ret = Bool(FALSE)

\* o.ifSome(f).ifNone(g), called in the current state
IfSomeIfNone(o, f, g) ==
  LET first == OptionIfSome(Cur, o, f)
  IN OptionIfNone(first.s, first.ret.n, g)

\* C26: ifSome(fn) invokes fn, with the contained value, exactly when the
\* option is present and ifNone(fn) invokes fn exactly when it is absent;
\* both return the receiver itself and leave its state as it was, so that
\* in the chain o.ifSome(f).ifNone(g), with two functions f and g, exactly
\* one of f and g runs.
C26_IfSomeIfNone ==
  /\ last.op \in {"ifSome", "ifNone"} =>
       /\ ~last.thrown
       /\ last.ret = Ref(last.self)
       /\ Content(last.self) = last.pre
       /\ last.log =
            (IF last.op = "ifSome" /\ last.pre.tag = "Some"
             THEN <<<<last.args[1], <<last.pre.value>>>>>>
             ELSE IF last.op = "ifNone" /\ last.pre.tag = "None"
             THEN <<<<last.args[1], << >>>>>>
             ELSE << >>)
  /\ \A o \in Held, f \in Effects, g \in {Fn("noop", Num(1))} :
       \E r \in {IfSomeIfNone(o, f, g)} :
         /\ ~r.thrown
         /\ r.ret = Ref(o)
         /\ r.s.opts = opts /\ r.s.cells = cells
         /\ r.s.log = (IF Content(o).tag = "Some"
                       THEN <<<<f, <<Content(o).value>>>>>>
                       ELSE <<<<g, << >>>>>>)

\* ifNone on an absent Option has run its function and returned the
\* Option, on which the chain runs the function of ifNone only
C26_Witness ==
  /\ last.op = "ifNone"
  /\ last.pre = Absent
  /\ last.ret = Ref(last.self)
  /\ Len(last.log) = 1
  /\ Content(last.self) = Absent
  /\ IfSomeIfNone(last.self, last.args[1], Fn("noop", Num(1))).s.log
       = <<<<Fn("noop", Num(1)), << >>>>>>

\* the call of inspectContent made the invocations that ifSome makes on the
\* same option with the same function, and left the option as it was
InspectsAsIfSome ==
  /\ ~last.thrown
  /\ Content(last.self) = last.pre
  /\ last.log = OptionIfSome(Cur, last.self, last.args[1]).s.log
  /\ last.log = (IF last.pre.tag = "Some"
                 THEN <<<<last.args[1], <<last.pre.value>>>>>>
                 ELSE << >>)

\* C27 as claimed: inspectContent is an alias of ifSome: it makes the same
\* invocations of the callback (fn(value) once when present, none when
\* absent), leaves the state unchanged and returns self for chaining.
C27_InspectAlias ==
  last.op = "inspectContent" =>
    /\ InspectsAsIfSome
    /\ last.ret = Ref(last.self)

\* C27: inspectContent makes the invocations of ifSome and leaves the state
\* unchanged, but returns nothing (undefined), where ifSome returns self.
C27_Inspect ==
  last.op = "inspectContent" =>
    /\ InspectsAsIfSome
    /\ last.ret = Undefined
    /\ OptionIfSome(Cur, last.self, last.args[1]).ret = Ref(last.self)

C27_Witness ==
  /\ last.op = "inspectContent"
  /\ last.pre.tag = "Some"
  /\ Len(last.log) = 1
  /\ last.ret = Undefined

\* C28: fromNullable(x) is None() exactly when x is null or undefined and
\* Some(x) for every other x, the falsy 0 and false included: whether x is
\* truthy plays no part.
C28_FromNullable ==
  last.op = "fromNullable" =>
    /\ ~last.thrown
    /\ last.fresh
    /\ last.args[1] \in {Null, Undefined} => last.out = Absent
    /\ last.args[1] \notin {Null, Undefined} =>
         /\ last.out = PresentWith(last.args[1])
         /\ OptionIsSome(Cur, last.ret.n).ret = Bool(TRUE)
         /\ OptionUnwrap(Cur, last.ret.n).ret = last.args[1]

\* fromNullable(false) is Some(false)
C28_Witness ==
  /\ last.op = "fromNullable"
  /\ last.args[1] = Bool(FALSE)
  /\ ~Truthy(last.args[1])
  /\ last.out = PresentWith(Bool(FALSE))

\* The single-slot register: reg is the slot, Absent or PresentWith(v).
\* One operation gives the slot after it and what it returns: the state of
\* the returned Option for take, takeIf and replace, the returned value for
\* getOrInsert and getOrInsertWith.
Register(op, args, reg) ==
  CASE op = "insert" -> [reg |-> PresentWith(args[1]), ret |-> Undefined]
    [] op = "replace" -> [reg |-> PresentWith(args[1]), ret |-> reg]
    [] op = "getOrInsert" ->
         IF reg.tag = "Some" THEN [reg |-> reg, ret |-> reg.value]
         ELSE [reg |-> PresentWith(args[1]), ret |-> args[1]]
    [] op = "getOrInsertWith" ->
         IF reg.tag = "Some" THEN [reg |-> reg, ret |-> reg.value]
         ELSE [reg |-> PresentWith(Result(args[1], << >>)),
               ret |-> Result(args[1], << >>)]
    [] op = "take" -> [reg |-> Absent, ret |-> reg]
    [] op = "takeIf" ->
         IF reg.tag = "Some" /\ Truthy(Result(args[1], <<reg.value>>))
         THEN [reg |-> Absent, ret |-> reg]
         ELSE [reg |-> reg, ret |-> Absent]

\* C29: an Option driven by insert, replace, getOrInsert, getOrInsertWith,
\* take and takeIf behaves as a single-slot register.  Every such call
\* takes the Option from the slot it holds to the slot the register gives,
\* and returns what the register returns; no other step changes the slot
\* of an Option the caller holds.  So after every sequence of calls the
\* Option holds the value of the last write (insert, replace, or a
\* getOrInsert or getOrInsertWith made while absent), or is absent when a
\* take, or a takeIf whose predicate held, came after it.  The callbacks
\* of these calls do not themselves call the Option.
C29_Register ==
  [][/\ last'.op \in Mutators =>
          \E m \in {Register(last'.op, last'.args, cells[opts[last'.self]])} :
            /\ ~last'.thrown
            /\ cells'[opts'[last'.self]] = m.reg
            /\ last'.op \in {"take", "takeIf", "replace"} =>
                 last'.out = m.ret
            /\ last'.op \in {"getOrInsert", "getOrInsertWith"} =>
                 last'.ret = m.ret
     /\ \A o \in OptIds :
          /\ opts[o] # NoCell
          /\ opts'[o] # NoCell
          /\ ~(last'.op \in Mutators /\ last'.self = o)
          /\ ~(last'.op = "takeIf(reentrant)" /\ last'.self = o)
          => cells'[opts'[o]] = cells[opts[o]]]_vars

\* getOrInsertWith on an Option that an earlier write left present: the
\* slot keeps that write and the generator's value is not stored
C29_Witness ==
  /\ last.op = "getOrInsertWith"
  /\ last.pre.tag = "Some"
  /\ last.pre.value # Result(last.args[1], << >>)
  /\ last.ret = last.pre.value
  /\ Content(last.self) = last.pre

\* the predicate fn accepts the value x
Accepts(fn, x) ==
  IF fn.n[1] = "inserting" THEN TRUE
  ELSE Truthy(Result(fn, <<x>>))

\* C30: takeIf(p) returns Some(x) only for the very value x that p was
\* applied to and accepted, and returns a present option whenever p
\* accepted a value, even when p itself calls insert, replace or take on
\* the receiver while it runs: the filter step and the take step of takeIf
\* act on the same value.
C30_TakeIfSameValue ==
  last.op \in {"takeIf", "takeIf(reentrant)"} =>
    /\ ~last.thrown
    /\ last.out.tag = "Some" =>
         /\ Len(last.log) = 1
         /\ last.log[1] = <<last.args[1], <<last.out.value>>>>
         /\ Accepts(last.args[1], last.out.value)
    /\ (Len(last.log) = 1 /\ Accepts(last.args[1], last.log[1][2][1])) =>
         last.out.tag = "Some"

====
